---- MODULE Spec2Model ----
(***************************************************************************)
(* rez package repository layer: PackageRepository and                     *)
(* PackageRepositoryManager of src/src/rez/package_repository.py.          *)
(*                                                                         *)
(* Strings are sequences of atoms.  An atom stands for a run of characters *)
(* holding neither ':' nor '/' ("filesystem", "mem", "a", ...), or for one *)
(* of the separators ":" and "/".                                          *)
(***************************************************************************)
EXTENDS Integers, Sequences, FiniteSets, TLC

\* ------------------------------------------------------------------ bounds
NumThreads == 2
MaxClears == 1
MaxRepos == 3
MaxResources == 3

\* --------------------------------------------------------------- strings
Colon == ":"
Slash == "/"
Filesystem == <<"filesystem">>
None == "None"

\* index of the first occurrence of atom c in s, 0 when there is none
Find(s, c) ==
    IF \E i \in 1..Len(s) : s[i] = c
    THEN CHOOSE i \in 1..Len(s) : s[i] = c /\ \A j \in 1..(i - 1) : s[j] # c
    ELSE 0

\* path.split(':', 1)
Split1(s) ==
    LET i == Find(s, Colon)
    IN  IF i = 0 THEN <<s>>
        ELSE <<SubSeq(s, 1, i - 1), SubSeq(s, i + 1, Len(s))>>

\* "%s:%s" % (a, b)
Format(a, b) == a \o <<Colon>> \o b

\* ---------------------------------------------------- the file system
\* The working directory is /a and /lnk is a symbolic link to /a.
Cwd == << <<"a">> >>

SymlinkTarget(comps) ==
    IF comps = << <<"lnk">> >> THEN << <<"a">> >> ELSE comps

\* the components of a path: the runs between "/" atoms, empty runs dropped
RECURSIVE Components(_)
Components(s) ==
    IF s = <<>> THEN <<>>
    ELSE LET i == Find(s, Slash)
         IN  IF i = 0 THEN <<s>>
             ELSE IF i = 1 THEN Components(Tail(s))
             ELSE <<SubSeq(s, 1, i - 1)>> \o Components(SubSeq(s, i + 1, Len(s)))

RECURSIVE Resolve(_, _)
Resolve(done, todo) ==
    IF todo = <<>> THEN done
    ELSE LET c == Head(todo)
         IN  IF c = <<".">> THEN Resolve(done, Tail(todo))
             ELSE IF c = <<"..">>
                  THEN Resolve(IF done = <<>> THEN <<>>
                               ELSE SubSeq(done, 1, Len(done) - 1), Tail(todo))
             ELSE Resolve(SymlinkTarget(Append(done, c)), Tail(todo))

RECURSIVE JoinPath(_)
JoinPath(comps) ==
    IF comps = <<>> THEN <<>>
    ELSE <<Slash>> \o Head(comps) \o JoinPath(Tail(comps))

\* os.path.realpath(location)
Realpath(location) ==
    LET start == IF location # <<>> /\ location[1] = Slash THEN <<>> ELSE Cwd
        comps == Resolve(start, Components(location))
    IN  IF comps = <<>> THEN <<Slash>> ELSE JoinPath(comps)

\* ------------------------------------------------------ plugin registry
\* plugin_manager.get_plugin_class('package_repository', repo_type) knows
\* these types and raises for any other; the class of "plain" overrides
\* nothing of PackageRepository, the other classes override its operations
Plain == <<"plain">>
PluginTypes == {<<"filesystem">>, <<"mem">>, Plain}
HasPlugin(repo_type) == repo_type \in PluginTypes

\* -------------------------------------------------- get_repository body
\* faulty variant: line 217 left out, no location is canonicalised
NormaliseNoRealpath(path) ==
    LET parts == Split1(path)
        typed == IF Len(parts) = 1 THEN <<Filesystem, parts[1]>> ELSE parts
    IN  Format(typed[1], typed[2])

\* faulty variant: line 217 skipped for a path without type prefix
NormaliseBareRaw(path) ==
    LET parts == Split1(path)
    IN  IF Len(parts) = 1 THEN Format(Filesystem, parts[1])
        ELSE Format(parts[1], IF parts[1] = Filesystem
                              THEN Realpath(parts[2]) ELSE parts[2])

\* faulty variant: line 216 left out, every type's location canonicalised
NormaliseAllRealpath(path) ==
    LET parts == Split1(path)
        typed == IF Len(parts) = 1 THEN <<Filesystem, parts[1]>> ELSE parts
    IN  Format(typed[1], Realpath(typed[2]))

\* lines 211-219: the normalised uri of a path
Normalise(path) ==
    LET parts == Split1(path)
        typed == IF Len(parts) = 1 THEN <<Filesystem, parts[1]>> ELSE parts
        repo_type == typed[1]
        location == IF repo_type = Filesystem THEN Realpath(typed[2]) ELSE typed[2]
    IN  Format(repo_type, location)

\* ------------------------------------------------------------- inputs
\* paths handed to get_repository: a symbolic link, a relative path, a typed
\* location that holds a ':', and a type no plugin is registered for
PathInputs ==
    { <<"/", "lnk">>, <<".">>,
      <<"mem", ":", "x", ":", "y">>,
      <<"bogus", ":", "/", "a">> }

\* locations handed to get_repository bare and behind "filesystem:"
NormLocations == { <<"/", "lnk">>, <<"mem", ":", "x", ":", "y">> }
NormPathInputs ==
    NormLocations \cup {<<"filesystem", ":">> \o l : l \in NormLocations}

\* resource handles handed to Manager.get_resource; the plugin classes
\* register the resource class "pkg" and none registers "zzz"
Handle(t, l, k) == [repository_type |-> t, location |-> l, key |-> k]
HandleInputs ==
    { Handle(<<"filesystem">>, <<"/", "lnk">>, "pkg"),
      Handle(<<"mem">>, <<"x", ":", "y">>, "pkg"),
      Handle(<<"mem">>, <<"x", ":", "y">>, "zzz") }

\* handles of one repository that differ in the variable "name"
NamedHandle(t, l, k, n) ==
    [repository_type |-> t, location |-> l, key |-> k, name |-> n]
PoolHandleInputs ==
    { NamedHandle(<<"mem">>, <<"x">>, "pkg", n) : n \in {"a", "b", "c"} }

\* the path of a backend that overrides nothing
BasePathInputs == { <<"plain", ":", "x">> }

\* paths handed to get_repository by callers that go on to read the uid of
\* the instance: the bare backend, one location under two types, and one
\* type at two locations
RepoPathInputs ==
    { <<"plain", ":", "x">>, <<"/", "lnk">>, <<"mem", ":", "/", "a">>,
      <<"mem", ":", "x">> }

\* calls that fail: a type without plugin and a location the constructor
\* rejects; a handle of an unregistered resource class, beside one that is
\* served, and a handle of a type without plugin
FailPathInputs == { <<"bogus", ":", "/", "a">>, <<"mem", ":", "bad">> }
FailHandleInputs ==
    { Handle(<<"mem">>, <<"x", ":", "y">>, "zzz"),
      Handle(<<"mem">>, <<"x", ":", "y">>, "pkg"),
      Handle(<<"bogus">>, <<"/", "a">>, "pkg") }

\* paths handed to get_repository between calls of Manager.get_resource
ResPathInputs == { <<"/", "lnk">> }

\* config.resource_caching_maxsize
ConfigSizes == {-1, 1}
PoolConfigSizes == {-1, 0, 1, 2}

Threads == 1..NumThreads

VARIABLES
    pc, op, path, handle, uri, repo, res, err, ret, lookups,   \* per thread
    pathCache, pathBusy,      \* the lru_cache of get_repository
    uriCache, uriBusy,        \* the lru_cache of _get_repository
    repos,                    \* the PackageRepository instances ever built
    uids,                     \* the uid each instance has stored
    resource_caching_maxsize, \* config.resource_caching_maxsize
    poolRef, cacheSize,       \* self.pool and its cache_size
    poolCache, poolClasses,   \* the pool: resident resources, known classes
    resources,                \* the resource objects ever built
    clears, overlap, retLog, ctorLog, resLog, evicted, recency,
    reposAtClear, resAtClear  \* history

threadVars == <<pc, op, path, handle, uri, repo, res, err, ret, lookups>>
cacheVars == <<pathCache, pathBusy, uriCache, uriBusy>>
poolVars == <<resource_caching_maxsize, poolRef, cacheSize, poolCache,
             poolClasses, resources>>
histVars == <<clears, overlap, retLog, ctorLog, resLog, evicted, recency,
              reposAtClear, resAtClear>>
vars == <<threadVars, cacheVars, repos, uids, poolVars, histVars>>

EmptyMap == [k \in {} |-> 0]
NoHandle == Handle(<<>>, <<>>, "")

\* ------------------------------------------------------------ the pool
\* ResourcePool(cache_size=...).cache_size for a configured maxsize
\* (<<>> is cache_size None, <<n>> is cache_size n)
Unbounded == <<>>

\* faulty variant: a negative maxsize taken as size 0
PoolSizeZero(maxsize) == IF maxsize < 0 THEN <<0>> ELSE <<maxsize>>
PoolSize(maxsize) == IF maxsize < 0 THEN Unbounded ELSE <<maxsize>>

\* PackageRepositoryManager.__init__
ManagerInit(maxsize) ==
    /\ poolRef = 1
    /\ cacheSize = PoolSize(maxsize)
    /\ poolCache = <<>>
    /\ poolClasses = {}
    /\ resources = <<>>

InitWith(sizes) ==
    /\ pc = [t \in Threads |-> "idle"]
    /\ op = [t \in Threads |-> ""]
    /\ path = [t \in Threads |-> <<>>]
    /\ handle = [t \in Threads |-> NoHandle]
    /\ uri = [t \in Threads |-> <<>>]
    /\ repo = [t \in Threads |-> 0]
    /\ res = [t \in Threads |-> 0]
    /\ err = [t \in Threads |-> None]
    /\ ret = [t \in Threads |-> None]
    /\ lookups = [t \in Threads |-> 0]
    /\ pathCache = EmptyMap /\ pathBusy = {}
    /\ uriCache = EmptyMap /\ uriBusy = {}
    /\ repos = <<>>
    /\ uids = EmptyMap
    /\ resource_caching_maxsize \in sizes
    /\ ManagerInit(resource_caching_maxsize)
    /\ clears = 0 /\ overlap = FALSE
    /\ retLog = {} /\ ctorLog = {} /\ resLog = {} /\ evicted = {}
    /\ recency = <<>>
    /\ reposAtClear = 0 /\ resAtClear = 0

\* the manager of the repository operations, its pool left unbounded
Init == InitWith({-1})

\* the manager under each configured pool size
InitRes == InitWith(ConfigSizes)
InitPool == InitWith(PoolConfigSizes)

\* ------------------------------------------------------ lru_cache wrapper
\* the memoising wrapper of @lru_cache(maxsize=None): a stored key is a hit;
\* a caller whose key another caller is computing waits for that result
MemoHit(cache, key) == key \in DOMAIN cache
\* faulty variant: a wrapper that never waits, concurrent misses all compute
MemoWaitNever(cache, busy, key) == FALSE
MemoWait(cache, busy, key) == key \notin DOMAIN cache /\ key \in busy
MemoStore(cache, key, value) == (key :> value) @@ cache

ClearRunning == \E u \in Threads : pc[u] \in {"cc2", "cc3"}

\* the locals of thread t are dropped when its call ends
Locals(t, o, p, h, u, r, x) ==
    /\ op' = [op EXCEPT ![t] = o]
    /\ path' = [path EXCEPT ![t] = p]
    /\ handle' = [handle EXCEPT ![t] = h]
    /\ uri' = [uri EXCEPT ![t] = u]
    /\ repo' = [repo EXCEPT ![t] = r]
    /\ res' = [res EXCEPT ![t] = x]
Idle(t) ==
    /\ pc' = [pc EXCEPT ![t] = "idle"]
    /\ Locals(t, "", <<>>, NoHandle, <<>>, 0, 0)
    /\ lookups' = [lookups EXCEPT ![t] = 0]

\* ------------------------------------------------------ get_repository
\* get_repository(p) hands r back to its caller: to the thread itself, or to
\* line 235 of Manager.get_resource, which goes on to line 236
GetRepositoryReturns(t, o, p, h, r) ==
    /\ retLog' = retLog \cup {<<Normalise(p), r>>}
    /\ IF o = "get_repository"
       THEN Idle(t)
       ELSE /\ pc' = [pc EXCEPT ![t] = "rs_pool"]
            /\ Locals(t, o, p, h, <<>>, r, 0)
            /\ UNCHANGED lookups

\* lines 197-198: a call get_repository(p) enters the memoising wrapper;
\* on a miss lines 211-220 run up to the call of _get_repository
GetRepositoryEnter(t, o, p, h) ==
    /\ pc[t] = "idle"
    /\ ~MemoWait(pathCache, pathBusy, p)
    /\ overlap' = (overlap \/ ClearRunning)
    /\ IF MemoHit(pathCache, p)
       THEN /\ GetRepositoryReturns(t, o, p, h, pathCache[p])
            /\ UNCHANGED pathBusy
       ELSE /\ pathBusy' = pathBusy \cup {p}
            /\ pc' = [pc EXCEPT ![t] = "g_lookup"]
            /\ Locals(t, o, p, h, Normalise(p), 0, 0)
            /\ UNCHANGED <<retLog, lookups>>
    /\ UNCHANGED <<err, ret, pathCache, uriCache, uriBusy, repos, uids, poolVars, clears,
                   ctorLog, resLog, evicted, recency, reposAtClear,
                   resAtClear>>

\* a thread calls manager.get_repository(p)
CallGetRepository(t, p) == GetRepositoryEnter(t, "get_repository", p, NoHandle)

\* lines 231-233 of Manager.get_resource: the path of a handle
HandlePath(h) == Format(h.repository_type, h.location)

\* a thread calls manager.get_resource(h): lines 231-235
CallGetResource(t, h) == GetRepositoryEnter(t, "get_resource", HandlePath(h), h)

\* lines 245-246: the memoised entry of _get_repository
\* faulty variant: line 245 left out, _get_repository not memoised
InnerEnterNoMemo(t) ==
    /\ pc[t] = "g_lookup"
    /\ uriBusy' = uriBusy \cup {uri[t]}
    /\ pc' = [pc EXCEPT ![t] = "g_body"]
    /\ UNCHANGED <<op, path, handle, uri, repo, res, err, ret, lookups, pathCache,
                   pathBusy, uriCache, repos, uids, poolVars, histVars>>

InnerEnter(t) ==
    /\ pc[t] = "g_lookup"
    /\ ~MemoWait(uriCache, uriBusy, uri[t])
    /\ IF MemoHit(uriCache, uri[t])
       THEN /\ repo' = [repo EXCEPT ![t] = uriCache[uri[t]]]
            /\ pc' = [pc EXCEPT ![t] = "gr_store"]
            /\ UNCHANGED uriBusy
       ELSE /\ uriBusy' = uriBusy \cup {uri[t]}
            /\ pc' = [pc EXCEPT ![t] = "g_body"]
            /\ UNCHANGED repo
    /\ UNCHANGED <<op, path, handle, uri, res, err, ret, lookups, pathCache,
                   pathBusy, uriCache, repos, uids, poolVars, histVars>>

\* the exception e leaves _get_repository and get_repository: both wrappers
\* are left without storing anything, and the caller gets the exception
Raise(t, e) ==
    /\ err' = [err EXCEPT ![t] = e]
    /\ UNCHANGED ret
    /\ pc' = [pc EXCEPT ![t] = "raised"]
    /\ pathBusy' = pathBusy \ {path[t]}
    /\ uriBusy' = uriBusy \ {uri[t]}

\* PackageRepository.__init__ (lines 32-33), run by a plugin class
NewRepository(repo_type, location, pool) ==
    [type |-> repo_type, location |-> location, pool |-> pool]

\* the constructor of a plugin class raises at a location it cannot serve
ConstructorFails(repo_type, location) == location = <<"bad">>

\* the plugin class of repo_type is instantiated by thread t
Construct(t, repo_type, location) ==
    /\ Len(repos) < MaxRepos
    /\ repos' = Append(repos, NewRepository(repo_type, location, poolRef))
    /\ repo' = [repo EXCEPT ![t] = Len(repos) + 1]
    /\ ctorLog' = ctorLog \cup {<<uri[t], Len(repos) + 1>>}
    /\ poolClasses' = poolClasses \cup {"pkg"}
    /\ pc' = [pc EXCEPT ![t] = "g_store"]
    /\ UNCHANGED <<err, ret, pathBusy, uriBusy, uids>>

\* lines 247-250: the body of _get_repository
\* faulty variant: an unknown type falls back to the filesystem plugin
InnerBodyFallback(t) ==
    LET parts == Split1(uri[t])
    IN  /\ pc[t] = "g_body"
        /\ lookups' = [lookups EXCEPT ![t] = @ + 1]
        /\ Construct(t, IF HasPlugin(parts[1]) THEN parts[1] ELSE Filesystem,
                     parts[2])
        /\ UNCHANGED <<op, path, handle, uri, res, pathCache, uriCache,
                       poolRef, cacheSize,
                       resource_caching_maxsize, poolCache, resources, clears,
                       overlap, retLog, resLog, evicted, recency,
                       reposAtClear, resAtClear>>

\* faulty variant: the wrapper of _get_repository stores the failed call
InnerBodyStoresFailure(t) ==
    LET parts == Split1(uri[t])
        repo_type == parts[1]
        location == parts[2]
    IN  /\ pc[t] = "g_body"
        /\ lookups' = [lookups EXCEPT ![t] = @ + 1]
        /\ IF ~HasPlugin(repo_type) \/ ConstructorFails(repo_type, location)
           THEN /\ Raise(t, IF HasPlugin(repo_type) THEN "ConstructorError"
                                                   ELSE "UnknownPluginError")
                /\ uriCache' = MemoStore(uriCache, uri[t], 0)
                /\ UNCHANGED <<repos, uids, repo, ctorLog, poolClasses>>
           ELSE /\ Construct(t, repo_type, location)
                /\ UNCHANGED uriCache
        /\ UNCHANGED <<op, path, handle, uri, res, pathCache,
                       poolRef, cacheSize, resource_caching_maxsize,
                       poolCache, resources, clears, overlap, retLog, resLog,
                       evicted, recency, reposAtClear, resAtClear>>

InnerBody(t) ==
    LET parts == Split1(uri[t])
        repo_type == parts[1]
        location == parts[2]
    IN  /\ pc[t] = "g_body"
        /\ lookups' = [lookups EXCEPT ![t] = @ + 1]
        /\ IF ~HasPlugin(repo_type)
           THEN /\ Raise(t, "UnknownPluginError")
                /\ UNCHANGED <<repos, uids, repo, ctorLog, poolClasses>>
           ELSE IF ConstructorFails(repo_type, location)
           THEN /\ Raise(t, "ConstructorError")
                /\ UNCHANGED <<repos, uids, repo, ctorLog, poolClasses>>
           ELSE Construct(t, repo_type, location)
        /\ UNCHANGED <<op, path, handle, uri, res, pathCache, uriCache,
                       poolRef, cacheSize,
                       resource_caching_maxsize, poolCache, resources, clears,
                       overlap, retLog, resLog, evicted, recency,
                       reposAtClear, resAtClear>>

\* line 245: the wrapper of _get_repository stores the result and returns it
\* to line 220
InnerStore(t) ==
    /\ pc[t] = "g_store"
    /\ uriCache' = MemoStore(uriCache, uri[t], repo[t])
    /\ uriBusy' = uriBusy \ {uri[t]}
    /\ pc' = [pc EXCEPT ![t] = "gr_store"]
    /\ UNCHANGED <<op, path, handle, uri, repo, res, err, ret, lookups, pathCache,
                   pathBusy, repos, uids, poolVars, histVars>>

\* line 197: the wrapper of get_repository stores the result and returns it
GetRepositoryStore(t) ==
    /\ pc[t] = "gr_store"
    /\ pathCache' = MemoStore(pathCache, path[t], repo[t])
    /\ pathBusy' = pathBusy \ {path[t]}
    /\ GetRepositoryReturns(t, op[t], path[t], handle[t], repo[t])
    /\ UNCHANGED <<err, ret, uriCache, uriBusy, repos, uids, poolVars, clears, overlap,
                   ctorLog, resLog, evicted, recency, reposAtClear,
                   resAtClear>>

\* the caller takes the exception of its call
Unwind(t) ==
    /\ pc[t] = "raised"
    /\ Idle(t)
    /\ err' = [err EXCEPT ![t] = None]
    /\ UNCHANGED ret
    /\ UNCHANGED <<cacheVars, repos, uids, poolVars, histVars>>

\* ------------------------------------------------- the resource pool
\* position of the resident resource of handle h in the pool, 0 if none
PoolIndex(h) ==
    IF \E i \in 1..Len(poolCache) : resources[poolCache[i]].handle = h
    THEN CHOOSE i \in 1..Len(poolCache) : resources[poolCache[i]].handle = h
    ELSE 0

\* the pool's cache is kept least recently used first
PoolTouch(i) ==
    SubSeq(poolCache, 1, i - 1) \o SubSeq(poolCache, i + 1, Len(poolCache))
        \o <<poolCache[i]>>

PoolFull == cacheSize # Unbounded /\ Len(poolCache) >= cacheSize[1]

PoolInsert(r) ==
    IF cacheSize = <<0>> THEN poolCache
    ELSE IF PoolFull THEN Append(Tail(poolCache), r)
    ELSE Append(poolCache, r)

PoolEvicts(r) ==
    IF cacheSize = <<0>> THEN {r}
    ELSE IF PoolFull THEN {Head(poolCache)}
    ELSE {}

\* history: the handles the pool has answered since it was last cleared,
\* each once, the most recently answered last
Used(seq, h) == SelectSeq(seq, LAMBDA g : g # h) \o <<h>>

\* line 165 of PackageRepository.get_resource:
\* self.pool.get_resource_from_handle(resource_handle)
RepositoryGetResource(t) ==
    LET h == handle[t]
        i == PoolIndex(h)
        new == Len(resources) + 1
    IN  /\ pc[t] = "rs_pool"
        /\ IF h.key \notin poolClasses
           THEN /\ err' = [err EXCEPT ![t] = "ResourceError"]
                /\ pc' = [pc EXCEPT ![t] = "raised"]
                /\ UNCHANGED <<ret, res, poolCache, resources, evicted,
                               recency>>
           ELSE IF i # 0
           THEN /\ res' = [res EXCEPT ![t] = poolCache[i]]
                /\ poolCache' = PoolTouch(i)
                /\ recency' = Used(recency, h)
                /\ pc' = [pc EXCEPT ![t] = "rs_stamp"]
                /\ UNCHANGED <<err, ret, resources, evicted>>
           ELSE /\ new <= MaxResources
                /\ resources' = Append(resources, [handle |-> h, repository |-> 0])
                /\ res' = [res EXCEPT ![t] = new]
                /\ poolCache' = PoolInsert(new)
                /\ evicted' = evicted \cup PoolEvicts(new)
                /\ recency' = Used(recency, h)
                /\ pc' = [pc EXCEPT ![t] = "rs_stamp"]
                /\ UNCHANGED <<err, ret>>
        /\ UNCHANGED <<op, path, handle, uri, repo, lookups, cacheVars, repos, uids,
                       poolRef, cacheSize,
                       resource_caching_maxsize, poolClasses, clears, overlap,
                       retLog, ctorLog, resLog, reposAtClear, resAtClear>>

\* lines 166-167 of PackageRepository.get_resource, and the return of
\* Manager.get_resource (lines 236-237)
\* faulty variant: line 166 left out
RepositoryStampNone(t) ==
    /\ pc[t] = "rs_stamp"
    /\ resLog' = resLog \cup {<<handle[t], res[t]>>}
    /\ Idle(t)
    /\ UNCHANGED <<err, ret, cacheVars, repos, uids, poolVars, clears, overlap, retLog,
                   ctorLog, evicted, recency, reposAtClear, resAtClear>>

RepositoryStamp(t) ==
    /\ pc[t] = "rs_stamp"
    /\ resources' = [resources EXCEPT ![res[t]].repository = repo[t]]
    /\ resLog' = resLog \cup {<<handle[t], res[t]>>}
    /\ Idle(t)
    /\ UNCHANGED <<err, ret, cacheVars, repos, uids, poolRef, cacheSize,
                   resource_caching_maxsize, poolCache,
                   poolClasses, clears, overlap, retLog, ctorLog, evicted,
                   recency, reposAtClear, resAtClear>>

\* ------------------------------------------------------- clear_caches
\* a thread calls manager.clear_caches(): line 241
CallClearCaches(t) ==
    /\ pc[t] = "idle"
    /\ clears < MaxClears
    /\ pathCache' = EmptyMap
    /\ pc' = [pc EXCEPT ![t] = "cc2"]
    /\ op' = [op EXCEPT ![t] = "clear_caches"]
    /\ clears' = clears + 1
    /\ overlap' = (\E u \in Threads \ {t} : pc[u] # "idle")
    /\ retLog' = {}
    /\ resLog' = {}
    /\ evicted' = {}
    /\ reposAtClear' = Len(repos)
    /\ resAtClear' = Len(resources)
    /\ UNCHANGED <<path, handle, uri, repo, res, err, ret, lookups, pathBusy,
                   uriCache, uriBusy, repos, uids, poolVars, ctorLog, recency>>

\* line 242
\* faulty variant: line 242 left out
ClearInnerSkipped(t) ==
    /\ pc[t] = "cc2"
    /\ ctorLog' = {}
    /\ pc' = [pc EXCEPT ![t] = "cc3"]
    /\ UNCHANGED <<op, path, handle, uri, repo, res, err, ret, lookups, cacheVars,
                   repos, uids, poolVars, clears, overlap, retLog, resLog,
                   evicted, recency, reposAtClear, resAtClear>>

ClearInner(t) ==
    /\ pc[t] = "cc2"
    /\ uriCache' = EmptyMap
    /\ ctorLog' = {}
    /\ pc' = [pc EXCEPT ![t] = "cc3"]
    /\ UNCHANGED <<op, path, handle, uri, repo, res, err, ret, lookups, pathCache,
                   pathBusy, uriBusy, repos, uids, poolVars, clears, overlap, retLog,
                   resLog, evicted, recency, reposAtClear, resAtClear>>

\* line 243: self.pool.clear_caches(), and the return of clear_caches
\* faulty variant: line 243 left out
ClearPoolSkipped(t) ==
    /\ pc[t] = "cc3"
    /\ Idle(t)
    /\ UNCHANGED <<err, ret, cacheVars, repos, uids, poolVars, histVars>>

\* faulty variant: line 243 replaces self.pool by a new pool
ClearPoolReplaced(t) ==
    /\ pc[t] = "cc3"
    /\ poolRef' = poolRef + 1
    /\ poolCache' = <<>>
    /\ Idle(t)
    /\ UNCHANGED <<err, ret, cacheVars, repos, uids, cacheSize,
                   resource_caching_maxsize, poolClasses, resources,
                   histVars>>

ClearPool(t) ==
    /\ pc[t] = "cc3"
    /\ poolCache' = <<>>
    /\ recency' = <<>>
    /\ Idle(t)
    /\ UNCHANGED <<err, ret, cacheVars, repos, uids, poolRef, cacheSize,
                   resource_caching_maxsize, poolClasses,
                   resources, clears, overlap, retLog, ctorLog, resLog,
                   evicted, reposAtClear, resAtClear>>

\* ------------------------------------- operations of PackageRepository
\* lines 18-21 and 54-132: the operations whose body is
\* "raise NotImplementedError"
NotImplementedOps ==
    { "name", "get_package_family", "iter_package_families", "iter_packages",
      "iter_variants", "get_parent_package_family", "get_parent_package",
      "get_developer_package" }

\* lines 134-162: the operations whose body returns a default
DefaultOps == { "get_variant_state_handle", "get_last_release_time" }
BaseOperations == NotImplementedOps \cup DefaultOps

\* faulty variant: the optional get_developer_package returns a default
RaisesNotImplementedRequired(o) ==
    o \in NotImplementedOps \ {"get_developer_package"}
RaisesNotImplemented(o) == o \in NotImplementedOps

\* line 148 "return None" and line 162 "return 0"
DefaultValue(o) == IF o = "get_last_release_time" THEN 0 ELSE None

\* the operations the plugin class of a type inherits unchanged
Inherits(repo_type, o) == repo_type = Plain

\* a thread calls operation o of instance i, whose class inherits it
BaseOperation(t, i, o) ==
    /\ pc[t] = "idle"
    /\ Inherits(repos[i].type, o)
    /\ op' = [op EXCEPT ![t] = o]
    /\ repo' = [repo EXCEPT ![t] = i]
    /\ IF RaisesNotImplemented(o)
       THEN /\ err' = [err EXCEPT ![t] = "NotImplementedError"]
            /\ pc' = [pc EXCEPT ![t] = "raised"]
            /\ UNCHANGED ret
       ELSE /\ ret' = [ret EXCEPT ![t] = DefaultValue(o)]
            /\ pc' = [pc EXCEPT ![t] = "returned"]
            /\ UNCHANGED err
    /\ UNCHANGED <<path, handle, uri, res, lookups, cacheVars, repos, uids,
                   poolVars, histVars>>

\* name() of the plugin class of a type: the type's name where the class
\* defines it
Name(repo_type) == repo_type

\* lines 169-181: _uid
\* faulty variant: the type's name left out of the identifier
DefaultUidLocation(i) == <<repos[i].location>>
DefaultUid(i) == <<Name(repos[i].type), repos[i].location>>

\* lines 43-52: a thread reads the cached property uid of instance i; the
\* first read that succeeds stores the value on the instance
UidAccess(t, i) ==
    /\ pc[t] = "idle"
    /\ op' = [op EXCEPT ![t] = "uid"]
    /\ repo' = [repo EXCEPT ![t] = i]
    /\ IF i \in DOMAIN uids
       THEN /\ ret' = [ret EXCEPT ![t] = uids[i]]
            /\ pc' = [pc EXCEPT ![t] = "returned"]
            /\ UNCHANGED <<err, uids>>
       ELSE IF Inherits(repos[i].type, "name")
       THEN /\ err' = [err EXCEPT ![t] = "NotImplementedError"]
            /\ pc' = [pc EXCEPT ![t] = "raised"]
            /\ UNCHANGED <<ret, uids>>
       ELSE /\ uids' = (i :> DefaultUid(i)) @@ uids
            /\ ret' = [ret EXCEPT ![t] = DefaultUid(i)]
            /\ pc' = [pc EXCEPT ![t] = "returned"]
            /\ UNCHANGED err
    /\ UNCHANGED <<path, handle, uri, res, lookups, cacheVars, repos,
                   poolVars, histVars>>

\* the caller takes the value its call returned
Return(t) ==
    /\ pc[t] = "returned"
    /\ Idle(t)
    /\ ret' = [ret EXCEPT ![t] = None]
    /\ UNCHANGED <<err, cacheVars, repos, uids, poolVars, histVars>>

\* ------------------------------------------------------ specification
\* the repository operations: get_repository and clear_caches
Next ==
    \E t \in Threads :
        \/ \E p \in PathInputs : CallGetRepository(t, p)
        \/ CallClearCaches(t)
        \/ InnerEnter(t)
        \/ InnerBody(t)
        \/ InnerStore(t)
        \/ GetRepositoryStore(t)
        \/ Unwind(t)
        \/ ClearInner(t)
        \/ ClearPool(t)

Spec == Init /\ [][Next]_vars

\* the repository operations on bare and "filesystem:" spellings
NextNorm ==
    \E t \in Threads :
        \/ \E p \in NormPathInputs : CallGetRepository(t, p)
        \/ CallClearCaches(t)
        \/ InnerEnter(t)
        \/ InnerBody(t)
        \/ InnerStore(t)
        \/ GetRepositoryStore(t)
        \/ ClearInner(t)
        \/ ClearPool(t)

SpecNorm == Init /\ [][NextNorm]_vars

\* the manager with its resources: get_resource, get_repository and
\* clear_caches
NextRes ==
    \E t \in Threads :
        \/ \E p \in ResPathInputs : CallGetRepository(t, p)
        \/ \E h \in HandleInputs : CallGetResource(t, h)
        \/ CallClearCaches(t)
        \/ InnerEnter(t)
        \/ InnerBody(t)
        \/ InnerStore(t)
        \/ GetRepositoryStore(t)
        \/ Unwind(t)
        \/ RepositoryGetResource(t)
        \/ RepositoryStamp(t)
        \/ ClearInner(t)
        \/ ClearPool(t)

SpecRes == InitRes /\ [][NextRes]_vars

\* the manager's pool under handles of one repository: get_resource and
\* clear_caches
NextPool ==
    \E t \in Threads :
        \/ \E h \in PoolHandleInputs : CallGetResource(t, h)
        \/ CallClearCaches(t)
        \/ InnerEnter(t)
        \/ InnerBody(t)
        \/ InnerStore(t)
        \/ GetRepositoryStore(t)
        \/ RepositoryGetResource(t)
        \/ RepositoryStamp(t)
        \/ ClearInner(t)
        \/ ClearPool(t)

SpecPool == InitPool /\ [][NextPool]_vars

\* a backend that overrides nothing in use: get_repository, clear_caches
\* and the operations of the instance
NextBase ==
    \E t \in Threads :
        \/ \E p \in BasePathInputs : CallGetRepository(t, p)
        \/ CallClearCaches(t)
        \/ InnerEnter(t)
        \/ InnerBody(t)
        \/ InnerStore(t)
        \/ GetRepositoryStore(t)
        \/ \E i \in 1..Len(repos) : \E o \in BaseOperations :
              BaseOperation(t, i, o)
        \/ Unwind(t)
        \/ Return(t)
        \/ ClearInner(t)
        \/ ClearPool(t)

SpecBase == Init /\ [][NextBase]_vars

\* the instances in use: get_repository, clear_caches and reads of uid
NextRepo ==
    \E t \in Threads :
        \/ \E p \in RepoPathInputs : CallGetRepository(t, p)
        \/ CallClearCaches(t)
        \/ InnerEnter(t)
        \/ InnerBody(t)
        \/ InnerStore(t)
        \/ GetRepositoryStore(t)
        \/ \E i \in 1..Len(repos) : UidAccess(t, i)
        \/ Unwind(t)
        \/ Return(t)
        \/ ClearInner(t)
        \/ ClearPool(t)

SpecRepo == Init /\ [][NextRepo]_vars

\* the manager under failing calls
NextFail ==
    \E t \in Threads :
        \/ \E p \in FailPathInputs : CallGetRepository(t, p)
        \/ \E h \in FailHandleInputs : CallGetResource(t, h)
        \/ CallClearCaches(t)
        \/ InnerEnter(t)
        \/ InnerBody(t)
        \/ InnerStore(t)
        \/ GetRepositoryStore(t)
        \/ Unwind(t)
        \/ RepositoryGetResource(t)
        \/ RepositoryStamp(t)
        \/ ClearInner(t)
        \/ ClearPool(t)

SpecFail == InitRes /\ [][NextFail]_vars

\* ================================================================ claims
\* the type and the location a path string names
TypeOf(p) == IF Find(p, Colon) = 0 THEN Filesystem ELSE Split1(p)[1]
LocationOf(p) == IF Find(p, Colon) = 0 THEN p ELSE Split1(p)[2]
Returned(u) == {e[2] : e \in {f \in retLog : f[1] = u}}
Built(u) == {e[2] : e \in {f \in ctorLog : f[1] = u}}

\* C1: Singleton-per-URI.  Among the get_repository calls made since the
\* last clear_caches (none of them overlapping a clear_caches), all calls
\* whose paths normalise to one URI returned the identical instance, and the
\* repository class was instantiated exactly once for that URI.
SingletonPerUri ==
    ~overlap =>
        \A e \in retLog :
            /\ Returned(e[1]) = {e[2]}
            /\ Built(e[1]) = {e[2]}

\* two spellings of one URI have both been answered
SingletonPerUriWitness ==
    /\ ~overlap
    /\ \E p \in DOMAIN pathCache : \E q \in DOMAIN pathCache :
          /\ p # q
          /\ Normalise(p) = Normalise(q)
          /\ <<Normalise(p), pathCache[p]>> \in retLog
          /\ <<Normalise(q), pathCache[q]>> \in retLog

CacheCoherenceAsStated ==
    ~overlap =>
        \A e \in resLog : \A f \in resLog : e[1] = f[1] => e[2] = f[2]

\* C4 amended: two get_resource calls with equal handles and no clear_caches
\* between them return the identical object unless the pool's size bound
\* evicted the first object in between, which an unbounded pool never does;
\* every object returned after a clear_caches was built after it.
CacheCoherence ==
    ~overlap =>
        /\ \A e \in resLog : \A f \in resLog :
              (e[1] = f[1] /\ e[2] < f[2]) => e[2] \in evicted
        /\ cacheSize = Unbounded => evicted = {}
        /\ \A e \in resLog : e[2] > resAtClear

\* a handle fetched before a clear_caches has been fetched again after it,
\* and some handle has been fetched twice since
CacheCoherenceWitness ==
    /\ ~overlap
    /\ clears > 0
    /\ \E e \in resLog : \E i \in 1..resAtClear : resources[i].handle = e[1]
    /\ \E t \in Threads :
          /\ pc[t] = "rs_stamp"
          /\ <<handle[t], res[t]>> \in resLog

\* C5: clear_caches empties both repository caches and the pool.  Once a
\* clear_caches that overlapped no other call has run line 241, every
\* instance get_repository caches or returns was built after the clear began;
\* past line 242 the same holds of the per-URI cache, and when it has
\* returned, of the resources resident in the pool.
ClearForcesReconstruction ==
    ~overlap =>
        /\ \A e \in retLog : e[2] > reposAtClear
        /\ \A p \in DOMAIN pathCache : pathCache[p] > reposAtClear
        /\ (\A t \in Threads : pc[t] # "cc2") =>
              \A u \in DOMAIN uriCache : uriCache[u] > reposAtClear
        /\ (\A t \in Threads : pc[t] \notin {"cc2", "cc3"}) =>
              \A i \in 1..Len(poolCache) : poolCache[i] > resAtClear

\* a path answered before a clear_caches has been answered again after it,
\* the pool having held a resource when the clear began
ClearForcesReconstructionWitness ==
    /\ ~overlap
    /\ clears > 0
    /\ resAtClear > 0
    /\ \E e \in retLog : \E i \in 1..reposAtClear :
          /\ repos[i].type = TypeOf(e[1])
          /\ repos[i].location = LocationOf(e[1])

\* C6 as stated: for every location L, get_repository(L) and
\* get_repository("filesystem:" + L) return the identical instance, and a
\* normalised URI normalises to itself.
IdempotentNormalisationAsStated ==
    ~overlap =>
        /\ \A p \in DOMAIN pathCache : \A q \in DOMAIN pathCache :
              q = Format(Filesystem, p) => pathCache[p] = pathCache[q]
        /\ \A t \in Threads : pc[t] = "g_lookup" => Normalise(uri[t]) = uri[t]

\* C6 amended: for every location L that holds no ':', get_repository(L)
\* and get_repository("filesystem:" + L) return the identical instance; the
\* URI get_repository builds from any path normalises to itself.
IdempotentNormalisation ==
    ~overlap =>
        /\ \A p \in DOMAIN pathCache : \A q \in DOMAIN pathCache :
              (Find(p, Colon) = 0 /\ q = Format(Filesystem, p))
                  => pathCache[p] = pathCache[q]
        /\ \A t \in Threads : pc[t] = "g_lookup" => Normalise(uri[t]) = uri[t]

\* a bare location and its "filesystem:" spelling have both been answered
IdempotentNormalisationWitness ==
    /\ ~overlap
    /\ \E p \in DOMAIN pathCache :
          /\ Find(p, Colon) = 0
          /\ Format(Filesystem, p) \in DOMAIN pathCache

\* C7 as stated: every key under which a filesystem-type instance is cached
\* is a canonical location.
CanonicalKeysAsStated ==
    /\ \A u \in DOMAIN uriCache :
          repos[uriCache[u]].type = Filesystem
              => Realpath(LocationOf(u)) = LocationOf(u)
    /\ \A p \in DOMAIN pathCache :
          repos[pathCache[p]].type = Filesystem
              => Realpath(LocationOf(p)) = LocationOf(p)

\* C7 amended: every key of the per-URI cache of _get_repository that holds
\* a filesystem-type instance names a canonical location, which is the
\* instance's location; the per-path cache of get_repository is keyed by the
\* path as it was spelled, and (no clear_caches overlapping) maps any two
\* spellings of one filesystem location to one instance.
CanonicalKeys ==
    /\ \A u \in DOMAIN uriCache :
          repos[uriCache[u]].type = Filesystem =>
              /\ Realpath(LocationOf(u)) = LocationOf(u)
              /\ repos[uriCache[u]].location = LocationOf(u)
    /\ ~overlap =>
          \A p \in DOMAIN pathCache : \A q \in DOMAIN pathCache :
              ( /\ TypeOf(p) = Filesystem /\ TypeOf(q) = Filesystem
                /\ Realpath(LocationOf(p)) = Realpath(LocationOf(q)) )
                  => pathCache[p] = pathCache[q]

\* a symbolic link and a relative path, two spellings of one directory, have
\* both been answered
CanonicalKeysWitness ==
    /\ ~overlap
    /\ \E p \in DOMAIN pathCache : \E q \in DOMAIN pathCache :
          /\ p # q
          /\ LocationOf(p) # LocationOf(q)
          /\ TypeOf(p) = Filesystem /\ TypeOf(q) = Filesystem
          /\ Realpath(LocationOf(p)) # LocationOf(p)
          /\ Realpath(LocationOf(q)) # LocationOf(q)
          /\ Realpath(LocationOf(p)) = Realpath(LocationOf(q))

\* C8: Handle routing and back-reference.  A Manager.get_resource call for
\* a handle of type t and location l resolves the handle through the
\* instance get_repository("t:l") returned, and (no clear_caches
\* overlapping) every resource it has returned carries that instance as its
\* _repository.
HandleRouting ==
    /\ \A t \in Threads : pc[t] \in {"rs_pool", "rs_stamp"} =>
          /\ path[t] = handle[t].repository_type \o <<Colon>> \o handle[t].location
          /\ ~overlap => Returned(Normalise(path[t])) = {repo[t]}
    /\ ~overlap =>
          \A e \in resLog :
              Returned(Normalise(e[1].repository_type \o <<Colon>> \o e[1].location))
                  = {resources[e[2]].repository}

\* a resource has been returned for a handle whose location holds a ':'
HandleRoutingWitness ==
    /\ ~overlap
    /\ \E e \in resLog :
          /\ Find(e[1].location, Colon) # 0
          /\ resources[e[2]].repository # 0
          /\ repos[resources[e[2]].repository].location = e[1].location

\* C9: Unknown plugin rejection.  A get_repository call for a path whose
\* type has no registered plugin never obtains an instance: after its one
\* plugin lookup it fails with the registry's unknown-plugin error, nothing
\* is cached for its path or URI, and no instance is ever returned for it.
UnknownPluginRejection ==
    /\ \A t \in Threads : (pc[t] # "idle" /\ op[t] # "clear_caches"
                              /\ ~HasPlugin(TypeOf(path[t]))) =>
          /\ pc[t] \in {"g_lookup", "g_body", "raised"}
          /\ repo[t] = 0
          /\ pc[t] = "raised" =>
                (err[t] = "UnknownPluginError" /\ lookups[t] = 1)
    /\ \A e \in retLog : HasPlugin(TypeOf(e[1]))
    /\ \A p \in DOMAIN pathCache : HasPlugin(TypeOf(p))
    /\ \A u \in DOMAIN uriCache : HasPlugin(TypeOf(u))

\* a call for a path of an unregistered type has failed
UnknownPluginRejectionWitness ==
    \E t \in Threads :
        /\ pc[t] = "raised"
        /\ ~HasPlugin(TypeOf(path[t]))
        /\ err[t] = "UnknownPluginError"

\* C10: Sole shared pool.  The manager's pool is the pool object its
\* constructor created, also after clear_caches, and every repository
\* instance ever built holds that pool.
SoleSharedPool ==
    /\ poolRef = 1
    /\ \A i \in 1..Len(repos) : repos[i].pool = poolRef

\* an instance has been built after a clear_caches that returned
SoleSharedPoolWitness ==
    /\ clears > 0
    /\ \A t \in Threads : pc[t] \notin {"cc2", "cc3"}
    /\ Len(repos) > reposAtClear
    /\ reposAtClear > 0

\* the handles of the resources resident in the pool, least recently used
\* first, and the n latest entries of a sequence
ResidentHandles ==
    [i \in 1..Len(poolCache) |-> resources[poolCache[i]].handle]
Latest(seq, n) ==
    IF Len(seq) <= n THEN seq ELSE SubSeq(seq, Len(seq) - n + 1, Len(seq))

\* C11: Unbounded vs bounded pool.  A manager configured with a negative
\* resource_caching_maxsize has a pool of size None, in which every distinct
\* handle answered since the pool was last cleared is resident; a manager
\* configured with N >= 0 has a pool of size exactly N, which never holds
\* more than N resources and holds those of the N most recently used
\* handles, the least recently used having been evicted.
UnboundedVsBoundedPool ==
    /\ resource_caching_maxsize < 0 =>
          /\ cacheSize = Unbounded
          /\ ResidentHandles = recency
    /\ resource_caching_maxsize >= 0 =>
          /\ cacheSize = <<resource_caching_maxsize>>
          /\ Len(poolCache) <= resource_caching_maxsize
          /\ ResidentHandles = Latest(recency, resource_caching_maxsize)

\* a pool of size 2 has answered three distinct handles, the first of them
\* again before the third, and has evicted the second
UnboundedVsBoundedPoolWitness ==
    /\ resource_caching_maxsize = 2
    /\ Len(recency) = 3
    /\ poolCache = <<1, 3>>
    /\ evicted = {2}

\* the outcome a caller holds of an operation of the abstract base
BaseOutcome ==
    \A t \in Threads : (pc[t] # "idle" /\ op[t] \in BaseOperations) =>
        /\ repos[repo[t]].type = Plain
        /\ op[t] \in NotImplementedOps =>
              (pc[t] = "raised" /\ err[t] = "NotImplementedError")
        /\ op[t] = "get_variant_state_handle" =>
              (pc[t] = "returned" /\ ret[t] = None)
        /\ op[t] = "get_last_release_time" =>
              (pc[t] = "returned" /\ ret[t] = 0)

\* a step of a call of an operation of the abstract base leaves the
\* repositories, the pool and the manager's caches as they were
BaseFrame ==
    \A t \in Threads :
        ((op[t] \in BaseOperations \/ op'[t] \in BaseOperations)
            /\ pc'[t] # pc[t])
        => UNCHANGED <<cacheVars, repos, uids, poolVars>>

\* C12: Failure semantics of the abstract base.  On an instance of a class
\* that overrides nothing, name, get_package_family, iter_package_families,
\* iter_packages, iter_variants, get_parent_package_family,
\* get_parent_package and get_developer_package fail with
\* NotImplementedError, get_variant_state_handle returns None and
\* get_last_release_time returns 0; no such call changes a repository, the
\* pool or the manager's caches.
FailureSemantics == []BaseOutcome /\ [][BaseFrame]_vars

\* on one cached instance that overrides nothing, get_developer_package has
\* failed for one caller while another holds the result of
\* get_last_release_time
FailureSemanticsWitness ==
    \E t \in Threads : \E u \in Threads :
        /\ pc[t] = "raised" /\ op[t] = "get_developer_package"
        /\ pc[u] = "returned" /\ op[u] = "get_last_release_time"
        /\ repo[t] = repo[u]
        /\ \E k \in DOMAIN uriCache : uriCache[k] = repo[t]

\* the instances the manager's caches hold, with the URI each is held under
Held ==
    {<<u, uriCache[u]>> : u \in DOMAIN uriCache}
        \cup {<<Normalise(p), pathCache[p]>> : p \in DOMAIN pathCache}

\* a stored uid is the pair of the class's name and the instance's location,
\* and is what a read of uid returns
UidStored ==
    /\ \A i \in DOMAIN uids :
          uids[i] = <<Name(repos[i].type), repos[i].location>>
    /\ \A t \in Threads : (pc[t] = "returned" /\ op[t] = "uid") =>
          (repo[t] \in DOMAIN uids /\ ret[t] = uids[repo[t]])

\* instances held under different URIs have different uids
UidUnique ==
    \A e \in Held : \A f \in Held :
        (e[1] # f[1] /\ e[2] \in DOMAIN uids /\ f[2] \in DOMAIN uids)
            => uids[e[2]] # uids[f[2]]

\* a stored uid is never replaced
UidKept ==
    \A i \in DOMAIN uids : i \in DOMAIN uids' /\ uids'[i] = uids[i]

\* C13: Repository uid.  The uid of an instance is computed on the first
\* read as (name(), location), stored, and returned unchanged by every later
\* read for as long as the instance exists; two instances the manager's
\* caches hold at the same time under different normalised URIs have
\* different uids.
RepositoryUid == []UidStored /\ []UidUnique /\ [][UidKept]_vars

\* two threads hold the uid of one instance, and the caches hold under
\* different URIs two instances of one location whose uids are stored
RepositoryUidWitness ==
    /\ \E t \in Threads : \E u \in Threads \ {t} :
          /\ pc[t] = "returned" /\ op[t] = "uid"
          /\ pc[u] = "returned" /\ op[u] = "uid"
          /\ repo[t] = repo[u]
    /\ \E e \in Held : \E f \in Held :
          /\ e[1] # f[1]
          /\ e[2] \in DOMAIN uids /\ f[2] \in DOMAIN uids
          /\ repos[e[2]].location = repos[f[2]].location

\* the text of p before its first ':' and the text after it
BeforeColon(p) == SubSeq(p, 1, Find(p, Colon) - 1)
AfterColon(p) == SubSeq(p, Find(p, Colon) + 1, Len(p))

\* instance r is what the plugin class named by path p builds from p
ParsedAs(p, r) ==
    IF Find(p, Colon) = 0
    THEN r.type = Filesystem /\ r.location = Realpath(p)
    ELSE /\ r.type = BeforeColon(p)
         /\ r.type = Filesystem => r.location = Realpath(AfterColon(p))
         /\ r.type # Filesystem => r.location = AfterColon(p)

\* C14: Path parsing.  The instance get_repository(path) obtains is of type
\* "filesystem", at the canonical form of the whole path, when the path holds
\* no ':'; otherwise its type is the text before the first ':' and its
\* location the text after that first ':', later ':' included, canonicalised
\* only when the type is "filesystem" and otherwise handed to the plugin
\* class as it is.
PathParsing ==
    /\ \A t \in Threads : pc[t] \in {"g_store", "gr_store"} =>
          ParsedAs(path[t], repos[repo[t]])
    /\ \A p \in DOMAIN pathCache : ParsedAs(p, repos[pathCache[p]])

\* a bare path, a typed path whose location holds a ':' and a "filesystem:"
\* path whose location holds a ':' have all been answered
PathParsingWitness ==
    /\ <<"/", "lnk">> \in DOMAIN pathCache
    /\ \E p \in DOMAIN pathCache :
          /\ repos[pathCache[p]].type # Filesystem
          /\ Find(repos[pathCache[p]].location, Colon) # 0
    /\ \E p \in DOMAIN pathCache :
          /\ Find(p, Colon) # 0
          /\ repos[pathCache[p]].type = Filesystem
          /\ Find(repos[pathCache[p]].location, Colon) # 0
          /\ repos[pathCache[p]].location # AfterColon(p)

\* C15: Two-level cache agreement.  In every reachable state, interleavings
\* of clear_caches with get_repository included, each instance the per-path
\* cache of get_repository holds is the instance the per-URI cache of
\* _get_repository holds for the path's normalised URI; and once a
\* clear_caches has returned, the per-path cache, from which a call that
\* starts now is answered, holds no instance built before that clear.
TwoLevelAgreement ==
    /\ \A p \in DOMAIN pathCache :
          /\ Normalise(p) \in DOMAIN uriCache
          /\ uriCache[Normalise(p)] = pathCache[p]
    /\ (clears > 0 /\ ~ClearRunning) =>
          \A p \in DOMAIN pathCache : pathCache[p] > reposAtClear

\* a clear_caches has returned, every thread is idle, and the per-path cache
\* holds an instance built before the clear that the per-URI cache lacks
TwoLevelAgreementWitness ==
    /\ clears > 0
    /\ \A t \in Threads : pc[t] = "idle"
    /\ \E p \in DOMAIN pathCache :
          /\ pathCache[p] <= reposAtClear
          /\ Normalise(p) \notin DOMAIN uriCache

\* the errors of get_repository
RepositoryErrors == {"UnknownPluginError", "ConstructorError"}

\* C16 as stated: a get_repository or Manager.get_resource call that has
\* failed after doing its own plugin lookup (no clear_caches overlapping) has
\* left no entry for its path in the per-path cache and none for its URI in
\* the per-URI cache.
NoStateChangeOnFailureAsStated ==
    ~overlap =>
        \A t \in Threads : (pc[t] = "raised" /\ lookups[t] > 0) =>
            /\ path[t] \notin DOMAIN pathCache
            /\ Normalise(path[t]) \notin DOMAIN uriCache

\* what a failed call has left behind
FailureLeaves ==
    \A t \in Threads : pc[t] = "raised" =>
        /\ err[t] \in RepositoryErrors =>
              /\ lookups[t] = 1
              /\ repo[t] = 0
              /\ path[t] \notin DOMAIN pathCache
              /\ Normalise(path[t]) \notin DOMAIN uriCache
        /\ err[t] = "ResourceError" =>
              /\ op[t] = "get_resource"
              /\ PoolIndex(handle[t]) = 0
              /\ ~overlap =>
                    /\ path[t] \in DOMAIN pathCache
                    /\ pathCache[path[t]] = repo[t]
                    /\ uriCache[Normalise(path[t])] = repo[t]

\* the step in which a call fails changes neither cache nor the pool
FailureFrame ==
    \A t \in Threads : (pc'[t] = "raised" /\ pc[t] # "raised") =>
        UNCHANGED <<pathCache, uriCache, poolCache, resources>>

\* C16 amended: a call that fails inside get_repository (unknown plugin type
\* or constructor error), made directly or through Manager.get_resource, has
\* done its own plugin lookup and leaves no entry for its path or URI in
\* either repository cache, so that a later identical call looks the plugin
\* up again; a Manager.get_resource call that fails in the pool leaves the
\* pool without a resource for its handle and its resident resources as they
\* were, while the repository it obtained stays in both repository caches.
NoStateChangeOnFailure == []FailureLeaves /\ [][FailureFrame]_vars

\* the pool holding a resource, one get_resource call has failed in the pool
\* while another call has failed inside get_repository
NoStateChangeOnFailureWitness ==
    /\ Len(poolCache) > 0
    /\ \E t \in Threads : \E u \in Threads \ {t} :
          /\ pc[t] = "raised" /\ err[t] = "ResourceError"
          /\ pc[u] = "raised" /\ err[u] \in RepositoryErrors

====
